---- MODULE Spec2Model ----
(***************************************************************************)
(* Behavioural model of Puzzle2048Game (src/src/games/puzzle_2048/game.py). *)
(* The grid is a sequence of rows, each a sequence of cell values, as the   *)
(* Python list of lists; cell positions in events are 0-based (i, j) as in  *)
(* the source, grid[i+1][j+1] being the cell they name.  Keys are the      *)
(* KEYDOWN events handle_event acts on within the game: the four           *)
(* directions, r (restart) and m (mode); ESC leaves the game for the menu. *)
(***************************************************************************)
EXTENDS Integers, Sequences, FiniteSets, TLC

VARIABLES
    grid,        \* self.grid
    score,       \* self.score
    game_over,   \* self.game_over
    won,         \* self.won
    moved,       \* self.moved
    animations,  \* self.animations, each progress in 1/1000
    dark_mode,   \* self.dark_mode
    raised,      \* the exception the last call ended with, "none" on a normal return
    last,        \* history: the last key handled and the state it was handled in
    steps,       \* exploration counter: keys handled so far in this run
    engine,      \* the GameEngine the game belongs to (self.engine), its MenuManager within
    calls        \* history: games constructed, cleanup() calls, the last event and its callbacks

game_vars == <<grid, score, game_over, won, moved, animations, dark_mode, raised, last, steps>>

vars == <<grid, score, game_over, won, moved, animations, dark_mode, raised, last, steps,
         engine, calls>>

----------------------------------------------------------------------------
(* Program constants *)

grid_size == 4

WinTile == 2048

ProgressDone == 1000

AnimationSpeed == 8

(* Exploration bounds *)

MaxSteps == 2

MaxTickMs == 125

MaxExponent == 2

TickChoices == {MaxTickMs}

ShortTickMs == 50

TickSteps == {ShortTickMs, MaxTickMs}

----------------------------------------------------------------------------
(* Helpers over Python lists *)

Idx == 0 .. (grid_size - 1)

Directions == {"up", "down", "left", "right"}

Keys == Directions \cup {"r", "m"}

Zeros(n) == [k \in 1 .. n |-> 0]

EmptyGrid == [i \in 1 .. grid_size |-> Zeros(grid_size)]

Cell(g, i, j) == g[i + 1][j + 1]

NonZero(cells) == SelectSeq(cells, LAMBDA c : c # 0)

Column(g, j) == [i \in 1 .. grid_size |-> g[i][j + 1]]

Event(type, i, j, value) ==
    [type |-> type, position |-> <<i, j>>, value |-> value, progress |-> 0]

----------------------------------------------------------------------------
(* The merge loops of _move_left/_move_up (forward scan) and
   _move_right/_move_down (backward scan).  cells is the line with its
   zeros removed and k the 0-based loop index. *)

(* variant: the tile value plus 2 instead of its double *)
MergeValuePlusTwo(v) == v + 2

(* variant: a merge leaving the value of one of its two tiles *)
MergeValueOfOne(v) == v

MergeValue(v) == v * 2

MergesForward(cells, k) == k + 1 < Len(cells) /\ cells[k + 1] = cells[k + 2]

(* variant: of three equal tiles the backward scan merges the pair away
   from the edge *)
MergesBackwardFarPair(cells, k) ==
    /\ k - 1 >= 0
    /\ cells[k + 1] = cells[k]
    /\ ~(k - 2 >= 0 /\ cells[k] = cells[k - 1])

MergesBackward(cells, k) == k - 1 >= 0 /\ cells[k + 1] = cells[k]

(* variant: the skip flag left unset after a merge *)
NoSkipAfterMerge == FALSE

SkipAfterMerge == TRUE

(* variant: the score counts the tile merged, not the merged value *)
AddScoreOfTile(total, new_value) == total + new_value \div 2

AddScore(total, new_value) == total + new_value

(* variant: a tile equal to the tile appended last merges into it *)
AppendOrRemerge(merged, value) ==
    IF merged # <<>> /\ merged[Len(merged)] = value
    THEN [merged EXCEPT ![Len(merged)] = value * 2]
    ELSE Append(merged, value)

(* variant: the forward scan inserting in front where it should append *)
AppendInFront(merged, value) == <<value>> \o merged

AppendTile(merged, value) == Append(merged, value)

(* variant: the backward scan appending where it should insert in front *)
InsertAtEnd(merged, value) == Append(merged, value)

InsertTile(merged, value) == <<value>> \o merged

(* variant: every merge position written as (idx, line) *)
EventAtSwapped(line, idx, horizontal, value) == Event("merge", idx, line, value)

(* variant: the index of the merged tile taken one too far *)
EventAtOffByOne(line, idx, horizontal, value) ==
    IF horizontal THEN Event("merge", line, idx + 1, value)
                  ELSE Event("merge", idx + 1, line, value)

EventAt(line, idx, horizontal, value) ==
    IF horizontal THEN Event("merge", line, idx, value)
                  ELSE Event("merge", idx, line, value)

(* Body(value), value evaluated once *)
With(value, Body(_)) == CHOOSE result \in {Body(v) : v \in {value}} : TRUE

(* The loop state before the first iteration: the skip flag, the merged
   list, the score added and the merge animations appended *)
LoopStart == [skip |-> FALSE, merged |-> <<>>, score |-> 0, events |-> <<>>]

(* One iteration, index j, of the loop of _move_left (horizontal) and
   _move_up on the loop state st *)
ForwardStep(cells, j, st, line, horizontal) ==
    IF st.skip THEN [st EXCEPT !.skip = FALSE]
    ELSE IF MergesForward(cells, j)
    THEN LET new_value == MergeValue(cells[j + 1])
             merged    == AppendTile(st.merged, new_value)
         IN  [skip   |-> SkipAfterMerge,
              merged |-> merged,
              score  |-> AddScore(st.score, new_value),
              events |-> Append(st.events,
                            EventAt(line, Len(merged) - 1, horizontal, new_value))]
    ELSE [st EXCEPT !.merged = AppendTile(@, cells[j + 1])]

(* One iteration, index j, of the loop of _move_right (horizontal) and
   _move_down *)
BackwardStep(cells, j, st, line, horizontal) ==
    IF st.skip THEN [st EXCEPT !.skip = FALSE]
    ELSE IF MergesBackward(cells, j)
    THEN LET new_value == MergeValue(cells[j + 1])
             merged    == InsertTile(st.merged, new_value)
         IN  [skip   |-> SkipAfterMerge,
              merged |-> merged,
              score  |-> AddScore(st.score, new_value),
              events |-> Append(st.events,
                            EventAt(line, grid_size - Len(merged), horizontal, new_value))]
    ELSE [st EXCEPT !.merged = InsertTile(@, cells[j + 1])]

(* The loop state after the first n iterations: j = 0, 1, ... forward and
   j = len - 1, len - 2, ... backward *)
RECURSIVE ScanForward(_, _, _, _)
ScanForward(cells, n, line, horizontal) ==
    IF n = 0 THEN LoopStart
    ELSE With(ScanForward(cells, n - 1, line, horizontal),
              LAMBDA st : ForwardStep(cells, n - 1, st, line, horizontal))

RECURSIVE ScanBackward(_, _, _, _)
ScanBackward(cells, n, line, horizontal) ==
    IF n = 0 THEN LoopStart
    ELSE With(ScanBackward(cells, n - 1, line, horizontal),
              LAMBDA st : BackwardStep(cells, Len(cells) - n, st, line, horizontal))

(* variant: the zeros put in front of the merged tiles *)
PadRightInFront(merged) == Zeros(grid_size - Len(merged)) \o merged

PadRight(merged) == merged \o Zeros(grid_size - Len(merged))

(* variant: the zeros put behind the merged tiles *)
PadLeftBehind(merged) == merged \o Zeros(grid_size - Len(merged))

PadLeft(merged) == Zeros(grid_size - Len(merged)) \o merged

(* One line of a pass: the loop body of _move_left (rows, forward),
   _move_right (rows, backward), _move_up (columns, forward) and _move_down
   (columns, backward) for the 0-based row or column index line *)
LeftRow(g, line) ==
    With(NonZero(g[line + 1]), LAMBDA row :
        [ScanForward(row, Len(row), line, TRUE) EXCEPT !.merged = PadRight(@)])

RightRow(g, line) ==
    With(NonZero(g[line + 1]), LAMBDA row :
        [ScanBackward(row, Len(row), line, TRUE) EXCEPT !.merged = PadLeft(@)])

UpColumn(g, line) ==
    With(NonZero(Column(g, line)), LAMBDA column :
        [ScanForward(column, Len(column), line, FALSE) EXCEPT !.merged = PadRight(@)])

DownColumn(g, line) ==
    With(NonZero(Column(g, line)), LAMBDA column :
        [ScanBackward(column, Len(column), line, FALSE) EXCEPT !.merged = PadLeft(@)])

LinePass(g, direction, line) ==
    CASE direction = "left"  -> LeftRow(g, line)
      [] direction = "right" -> RightRow(g, line)
      [] direction = "up"    -> UpColumn(g, line)
      [] direction = "down"  -> DownColumn(g, line)

(* self.grid[i] = merged, and self.grid[i][j] = merged[i] for every i *)
(* variant: the collapsed row written into the row below *)
WriteRowBelow(g, line, merged) ==
    [g EXCEPT ![((line + 1) % grid_size) + 1] = merged]

WriteRow(g, line, merged) == [g EXCEPT ![line + 1] = merged]

WriteColumn(g, line, merged) ==
    [i \in 1 .. grid_size |-> [g[i] EXCEPT ![line + 1] = merged[i]]]

StoreLine(g, direction, line, merged) ==
    IF direction \in {"left", "right"} THEN WriteRow(g, line, merged)
                                       ELSE WriteColumn(g, line, merged)

(* range(self.grid_size), the order in which the lines are processed *)
LoopOrder == [k \in 1 .. grid_size |-> k - 1]

(* The state of a pass: the grid as written so far, the score added and the
   animations appended *)
PassStart(g) == [grid |-> g, score |-> 0, events |-> <<>>]

(* One iteration of the outer loop: the line is read from the grid as the
   earlier iterations left it, collapsed and written back *)
ProcessLine(st, direction, line) ==
    With(LinePass(st.grid, direction, line), LAMBDA done :
        [grid   |-> StoreLine(st.grid, direction, line, done.merged),
         score  |-> st.score + done.score,
         events |-> st.events \o done.events])

(* The pass after its first n lines, taken in the given order *)
RECURSIVE ProcessLines(_, _, _, _)
ProcessLines(g, direction, order, n) ==
    IF n = 0 THEN PassStart(g)
    ELSE With(ProcessLines(g, direction, order, n - 1),
              LAMBDA st : ProcessLine(st, direction, order[n]))

_move_left(g) == ProcessLines(g, "left", LoopOrder, grid_size)

_move_right(g) == ProcessLines(g, "right", LoopOrder, grid_size)

_move_up(g) == ProcessLines(g, "up", LoopOrder, grid_size)

_move_down(g) == ProcessLines(g, "down", LoopOrder, grid_size)

Collapse(g, direction) ==
    CASE direction = "left"  -> _move_left(g)
      [] direction = "right" -> _move_right(g)
      [] direction = "up"    -> _move_up(g)
      [] direction = "down"  -> _move_down(g)

----------------------------------------------------------------------------
(* Spawning, the win/loss check and initialize() *)

Cells == Idx \X Idx

(* Cell p comes before cell q reading the grid row by row *)
RowMajorFirst(p, q) == p[1] < q[1] \/ (p[1] = q[1] /\ p[2] < q[2])

EmptyCells(g) == {c \in Cells : Cell(g, c[1], c[2]) = 0}

SpawnValues == {2, 4}

SetCell(g, c, v) == [g EXCEPT ![c[1] + 1][c[2] + 1] = v]

(* The outcomes of _add_random_tile on grid g and animation list anims:
   one per empty cell and spawn value; the state as it is when no cell is
   empty. *)
(* variant: the tile always put in the first empty cell *)
AddTileAtFirstEmpty(g, anims) ==
    IF EmptyCells(g) # {}
    THEN {[grid       |-> SetCell(g, c, v),
           animations |-> Append(anims, Event("spawn", c[1], c[2], v))] :
              c \in {CHOOSE first \in EmptyCells(g) :
                        \A other \in EmptyCells(g) :
                           first = other \/ RowMajorFirst(first, other)},
              v \in SpawnValues}
    ELSE {[grid |-> g, animations |-> anims]}

(* variant: no test for an empty cell, any cell taken when none is empty *)
AddTileOverwriting(g, anims) ==
    {[grid       |-> SetCell(g, c, v),
      animations |-> Append(anims, Event("spawn", c[1], c[2], v))] :
         c \in IF EmptyCells(g) # {} THEN EmptyCells(g) ELSE Cells,
         v \in SpawnValues}

_add_random_tile(g, anims) ==
    IF EmptyCells(g) # {}
    THEN {[grid       |-> SetCell(g, c, v),
           animations |-> Append(anims, Event("spawn", c[1], c[2], v))] :
              c \in EmptyCells(g), v \in SpawnValues}
    ELSE {[grid |-> g, animations |-> anims]}

HasWinTile(g) == \E c \in Cells : Cell(g, c[1], c[2]) = WinTile

HasZero(g) == \E c \in Cells : Cell(g, c[1], c[2]) = 0

HorizontalMerge(g) ==
    \E i \in Idx : \E j \in 0 .. (grid_size - 2) : Cell(g, i, j) = Cell(g, i, j + 1)

VerticalMerge(g) ==
    \E j \in Idx : \E i \in 0 .. (grid_size - 2) : Cell(g, i, j) = Cell(g, i + 1, j)

(* variant: the win test compares with > instead of membership *)
CheckWonAbove(g, w) ==
    IF ~w THEN \E c \in Cells : Cell(g, c[1], c[2]) > WinTile ELSE w

CheckWon(g, w) == IF ~w THEN HasWinTile(g) ELSE w

(* variant: a full board is game over, mergeable or not *)
CheckGameOverWhenFull(g, over) == IF ~HasZero(g) THEN TRUE ELSE over

(* variant: the loss never detected *)
CheckGameOverNever(g, over) == over

(* variant: a full board tested for merges within its rows only *)
CheckGameOverRowsOnly(g, over) ==
    IF ~HasZero(g) THEN ~HorizontalMerge(g) ELSE over

CheckGameOver(g, over) ==
    IF ~HasZero(g) THEN ~HorizontalMerge(g) /\ ~VerticalMerge(g) ELSE over

(* variant: the win message tested first *)
MessageWinFirst(w, over) ==
    IF w THEN "You Win"
    ELSE IF over THEN "Game Over"
    ELSE "none"

(* The message _draw_ui shows for the flags *)
Message(w, over) ==
    IF w /\ ~over THEN "You Win"
    ELSE IF over THEN "Game Over"
    ELSE "none"

(* The outcomes of the two spawns of initialize() on the cleared grid *)
(* variant: initialize() spawning one tile *)
InitialBoardsOneSpawn == _add_random_tile(EmptyGrid, <<>>)

InitialBoards ==
    UNION {_add_random_tile(s.grid, s.animations) :
              s \in _add_random_tile(EmptyGrid, <<>>)}

(* The history entry of initialize(): the fields as it resets them; a
   restart keeps in it the flags of the game it ended *)
Cleared ==
    [key |-> "r", grid |-> EmptyGrid, score |-> 0, won |-> FALSE,
     game_over |-> FALSE]

Entry(key) ==
    [key |-> key, grid |-> grid, score |-> score, won |-> won,
     game_over |-> game_over]

(* variant: initialize() leaving the won flag as it is *)
initializeKeepingWon ==
    /\ \E s \in InitialBoards :
          /\ grid' = s.grid
          /\ animations' = s.animations
    /\ score' = 0
    /\ game_over' = FALSE
    /\ won' = won
    /\ moved' = FALSE
    /\ last' = [Cleared EXCEPT !.won = won, !.game_over = game_over]

initialize ==
    /\ \E s \in InitialBoards :
          /\ grid' = s.grid
          /\ animations' = s.animations
    /\ score' = 0
    /\ game_over' = FALSE
    /\ won' = FALSE
    /\ moved' = FALSE
    /\ last' = [Cleared EXCEPT !.won = won, !.game_over = game_over]

(* variant: the lists compared by identity, never the same object *)
GridNotSameObject(new_grid, old_grid) == TRUE

(* variant: only the first row compared *)
FirstRowChanged(new_grid, old_grid) == new_grid[1] # old_grid[1]

GridChanged(new_grid, old_grid) == new_grid # old_grid

(* variant: the game state checked before the tile is spawned *)
_move_tiles_check_first(direction) ==
    \E old_grid \in {grid}, pass \in {Collapse(grid, direction)} :
        /\ score' = score + pass.score
        /\ IF GridChanged(pass.grid, old_grid)
           THEN /\ moved' = TRUE
                /\ won' = CheckWon(pass.grid, won)
                /\ game_over' = CheckGameOver(pass.grid, game_over)
                /\ \E s \in _add_random_tile(pass.grid, animations \o pass.events) :
                      /\ grid' = s.grid
                      /\ animations' = s.animations
           ELSE /\ moved' = FALSE
                /\ grid' = pass.grid
                /\ animations' = animations \o pass.events
                /\ UNCHANGED <<won, game_over>>

_move_tiles(direction) ==
    \E old_grid \in {grid}, pass \in {Collapse(grid, direction)} :
        /\ score' = score + pass.score
        /\ IF GridChanged(pass.grid, old_grid)
           THEN /\ moved' = TRUE
                /\ \E s \in _add_random_tile(pass.grid, animations \o pass.events) :
                      /\ grid' = s.grid
                      /\ animations' = s.animations
                /\ won' = CheckWon(grid', won)
                /\ game_over' = CheckGameOver(grid', game_over)
           ELSE /\ moved' = FALSE
                /\ grid' = pass.grid
                /\ animations' = animations \o pass.events
                /\ UNCHANGED <<won, game_over>>

(* variant: a won game takes no more moves *)
MovesAllowedUntilWon == ~game_over /\ ~won

(* variant: the moves not guarded at all *)
MovesAllowedAlways == TRUE

MovesAllowed == ~game_over

(* Exploration: a restart is followed from the start positions and the
   states one key after them, and a restarted game is not followed further *)
Explored(key) == steps < MaxSteps /\ (key = "r" => steps <= 1)

StepsAfter(key) == IF key = "r" THEN MaxSteps ELSE steps + 1

handle_event(key) ==
    /\ Explored(key)
    /\ steps' = StepsAfter(key)
    /\ raised' = "none"
    /\ UNCHANGED <<engine, calls>>
    /\ CASE key \in Directions ->
              IF MovesAllowed
              THEN _move_tiles(key) /\ last' = Entry(key) /\ UNCHANGED dark_mode
              ELSE /\ last' = Entry(key)
                   /\ UNCHANGED <<grid, score, game_over, won, moved, animations, dark_mode>>
         [] key = "r" -> initialize /\ UNCHANGED dark_mode
         [] key = "m" ->
              /\ dark_mode' = ~dark_mode
              /\ last' = Entry(key)
              /\ UNCHANGED <<grid, score, game_over, won, moved, animations>>

(* update(delta_time), delta_time = ms / 1000: the loop over a copy of the
   list, removing the first equal element once its progress is done *)
RECURSIVE RemoveFirst(_, _)
RemoveFirst(list, x) ==
    IF list = <<>> THEN <<>>
    ELSE IF Head(list) = x THEN Tail(list)
    ELSE <<Head(list)>> \o RemoveFirst(Tail(list), x)

Advance(anims, ms) ==
    [k \in 1 .. Len(anims) |->
        [anims[k] EXCEPT !.progress = @ + ms * AnimationSpeed]]

(* variant: the loop running over the list it removes from, not a copy *)
RECURSIVE RemoveDoneInPlace(_, _, _)
RemoveDoneInPlace(list, copy, k) ==
    IF k > Len(list) THEN list
    ELSE IF list[k].progress >= ProgressDone
         THEN RemoveDoneInPlace(RemoveFirst(list, list[k]), copy, k + 1)
         ELSE RemoveDoneInPlace(list, copy, k + 1)

RECURSIVE RemoveDone(_, _, _)
RemoveDone(list, copy, k) ==
    IF k > Len(copy) THEN list
    ELSE IF copy[k].progress >= ProgressDone
         THEN RemoveDone(RemoveFirst(list, copy[k]), copy, k + 1)
         ELSE RemoveDone(list, copy, k + 1)

UpdatedAnimations(anims, ms) ==
    LET advanced == Advance(anims, ms) IN RemoveDone(advanced, advanced, 1)

(* variant: the value of a merge added to the score when its animation ends *)
updateScoringFinished(ms) ==
    /\ animations' = UpdatedAnimations(animations, ms)
    /\ score' = score + Len(animations) - Len(animations')
    /\ UNCHANGED <<grid, game_over, won, moved, dark_mode, raised, last, steps, engine, calls>>

update(ms) ==
    /\ animations' = UpdatedAnimations(animations, ms)
    /\ UNCHANGED <<grid, score, game_over, won, moved, dark_mode, raised, last, steps, engine, calls>>

----------------------------------------------------------------------------
(* The engine (src/src/core/engine.py) and its menu
   (src/src/ui/menu_manager.py).  engine is the GameEngine with its
   MenuManager as the field menu_manager; a game is the class constructed
   and the number of its construction.  Times are in milliseconds:
   click_cooldown 0.3 is 300.  The games' own handle_event and update do not
   reach the engine: each calls _return_to_menu on ESC only, a key the engine
   has acted on before it hands the event on. *)

MaxGames == 3

CooldownNavigate == 300

CooldownLaunch == 500

ScreenWidth == 1280

ScreenHeight == 720

NoGame == [class |-> "None", id |-> 0]

NoEvent == [type |-> "none", key |-> "none", button |-> 0, mouse_pos |-> <<0, 0>>]

MenuAtStart == [current_menu |-> "main", click_cooldown |-> 0]

EngineAtStart ==
    [running |-> TRUE, current_game |-> NoGame, game_state |-> "MENU",
     exited |-> FALSE, menu_manager |-> MenuAtStart]

CallsAtStart == [created |-> 0, cleanup |-> <<>>, event |-> NoEvent, callbacks |-> <<>>]

(* The engine of a Puzzle2048Game in play *)
EngineInGame ==
    [EngineAtStart EXCEPT !.current_game = [class |-> "Puzzle2048Game", id |-> 1],
                          !.game_state = "GAMEPLAY"]

CallsInGame == [CallsAtStart EXCEPT !.created = 1]

(* self.buttons in the order of insertion, the order _handle_click scans *)
Button(button_id, x, y, width, height, callback, game_id) ==
    [button_id |-> button_id, x |-> x, y |-> y, width |-> width, height |-> height,
     callback |-> callback, game_id |-> game_id]

GameIds ==
    <<"tictactoe", "memory", "puzzle_2048", "sliding", "snake", "sudoku", "domino", "tetris">>

GameButtonIds ==
    <<"game_tictactoe", "game_memory", "game_puzzle_2048", "game_sliding", "game_snake",
      "game_sudoku", "game_domino", "game_tetris">>

GameButton(i) ==
    LET grid_x == (ScreenWidth - 400) \div 2
        grid_y == 150
        row == i \div 2
        col == i % 2
    IN  Button(GameButtonIds[i + 1], grid_x + col * 200 + 10, grid_y + row * 70 + 10,
               180, 50, "_on_game_select", GameIds[i + 1])

buttons ==
    << Button("start_game", ScreenWidth \div 2 - 100, ScreenHeight \div 2 - 60, 200, 50,
              "_on_start_game", ""),
       Button("settings", ScreenWidth \div 2 - 100, ScreenHeight \div 2, 200, 50,
              "_on_settings", ""),
       Button("quit", ScreenWidth \div 2 - 100, ScreenHeight \div 2 + 60, 200, 50,
              "_on_quit", "") >>
    \o [i \in 1 .. Len(GameIds) |-> GameButton(i - 1)]
    \o << Button("back_to_main", ScreenWidth \div 2 - 100, ScreenHeight - 80, 200, 50,
                 "_on_back_to_main", ""),
          Button("settings_back", ScreenWidth \div 2 - 100, ScreenHeight - 80, 200, 50,
                 "_on_back_to_main", "") >>

(* Rect.colliderect with the 1 x 1 rectangle at the mouse position *)
is_clicked(button, mouse_pos) ==
    /\ button.x <= mouse_pos[1] /\ mouse_pos[1] < button.x + button.width
    /\ button.y <= mouse_pos[2] /\ mouse_pos[2] < button.y + button.height

(* button_id.startswith("game_"), over the ids of self.buttons *)
StartsWithGame(button_id) == \E k \in 1 .. Len(GameButtonIds) : GameButtonIds[k] = button_id

_is_button_in_current_menu(current_menu, button_id) ==
    IF current_menu = "main" THEN button_id \in {"start_game", "settings", "quit"}
    ELSE IF current_menu = "game_select"
         THEN StartsWithGame(button_id) \/ button_id = "back_to_main"
    ELSE IF current_menu = "settings" THEN button_id = "settings_back"
    ELSE FALSE

(* The methods below take and return s, the engine with the history of its
   calls.  Called: a callback that got past its test of the cooldown. *)
Called(s, callback, game_id) ==
    [s EXCEPT !.calls.callbacks = Append(@, [callback |-> callback, game_id |-> game_id])]

cleanup(s, game) == [s EXCEPT !.calls.cleanup = Append(@, game.id)]

(* variant: the game replaced without its cleanup *)
switch_to_game_no_cleanup(s, game_class) ==
    [s EXCEPT !.engine.current_game = [class |-> game_class, id |-> s.calls.created + 1],
              !.engine.game_state = "GAMEPLAY",
              !.calls.created = @ + 1]

switch_to_game(s, game_class) ==
    LET cleaned == IF s.engine.current_game # NoGame
                   THEN cleanup(s, s.engine.current_game) ELSE s
    IN  [cleaned EXCEPT
            !.engine.current_game = [class |-> game_class, id |-> s.calls.created + 1],
            !.engine.game_state = "GAMEPLAY",
            !.calls.created = @ + 1]

(* variant: the game cleaned up and kept as the current game *)
_return_to_menu_keeping_game(s) ==
    LET cleaned == IF s.engine.current_game # NoGame
                   THEN cleanup(s, s.engine.current_game) ELSE s
    IN  [cleaned EXCEPT !.engine.game_state = "MENU"]

_return_to_menu(s) ==
    LET cleaned == IF s.engine.current_game # NoGame
                   THEN [cleanup(s, s.engine.current_game) EXCEPT
                            !.engine.current_game = NoGame]
                   ELSE s
    IN  [cleaned EXCEPT !.engine.game_state = "MENU"]

_handle_keydown(s, event) ==
    IF event.key = "ESCAPE"
    THEN IF s.engine.game_state = "GAMEPLAY" THEN _return_to_menu(s)
         ELSE [s EXCEPT !.engine.running = FALSE]
    ELSE s

(* variant: the navigation to the game selection leaving the cooldown alone *)
_on_start_game_no_cooldown(s) ==
    IF s.engine.menu_manager.click_cooldown <= 0
    THEN Called([s EXCEPT !.engine.menu_manager.current_menu = "game_select"],
                "_on_start_game", "")
    ELSE s

_on_start_game(s) ==
    IF s.engine.menu_manager.click_cooldown <= 0
    THEN Called([s EXCEPT !.engine.menu_manager.current_menu = "game_select",
                          !.engine.menu_manager.click_cooldown = CooldownNavigate],
                "_on_start_game", "")
    ELSE s

_on_settings(s) ==
    IF s.engine.menu_manager.click_cooldown <= 0
    THEN Called([s EXCEPT !.engine.menu_manager.current_menu = "settings",
                          !.engine.menu_manager.click_cooldown = CooldownNavigate],
                "_on_settings", "")
    ELSE s

_on_quit(s) ==
    IF s.engine.menu_manager.click_cooldown <= 0
    THEN Called([s EXCEPT !.engine.running = FALSE], "_on_quit", "")
    ELSE s

_on_back_to_main(s) ==
    IF s.engine.menu_manager.click_cooldown <= 0
    THEN Called([s EXCEPT !.engine.menu_manager.current_menu = "main",
                          !.engine.menu_manager.click_cooldown = CooldownNavigate],
                "_on_back_to_main", "")
    ELSE s

(* variant: the 2048 puzzle launched like the three games that are *)
GameClassWith2048(game_id) ==
    CASE game_id = "tictactoe" -> "TicTacToeGame"
      [] game_id = "memory" -> "MemoryGame"
      [] game_id = "puzzle_2048" -> "Puzzle2048Game"
      [] game_id = "snake" -> "SnakeGame"
      [] OTHER -> "None"

(* The class _on_game_select imports and switches to, "None" where the
   branch of the id only prints *)
GameClass(game_id) ==
    CASE game_id = "tictactoe" -> "TicTacToeGame"
      [] game_id = "memory" -> "MemoryGame"
      [] game_id = "snake" -> "SnakeGame"
      [] OTHER -> "None"

_on_game_select(s, game_id) ==
    IF s.engine.menu_manager.click_cooldown > 0 THEN s
    ELSE LET selected == Called([s EXCEPT !.engine.menu_manager.click_cooldown =
                                              CooldownLaunch],
                                "_on_game_select", game_id)
         IN  IF GameClass(game_id) # "None"
             THEN switch_to_game(selected, GameClass(game_id))
             ELSE selected

(* Button.click: the callback of the button *)
click(s, button) ==
    CASE button.callback = "_on_start_game" -> _on_start_game(s)
      [] button.callback = "_on_settings" -> _on_settings(s)
      [] button.callback = "_on_quit" -> _on_quit(s)
      [] button.callback = "_on_back_to_main" -> _on_back_to_main(s)
      [] button.callback = "_on_game_select" -> _on_game_select(s, button.game_id)

(* The loop of _handle_click from button k on: current_menu is read anew for
   every button *)
RECURSIVE ScanButtons(_, _, _)
ScanButtons(s, k, mouse_pos) ==
    IF k > Len(buttons) THEN s
    ELSE IF /\ _is_button_in_current_menu(s.engine.menu_manager.current_menu,
                                          buttons[k].button_id)
            /\ is_clicked(buttons[k], mouse_pos)
         THEN ScanButtons(click(s, buttons[k]), k + 1, mouse_pos)
         ELSE ScanButtons(s, k + 1, mouse_pos)

_handle_click(s, mouse_pos) ==
    IF s.engine.menu_manager.click_cooldown > 0 THEN s
    ELSE ScanButtons(s, 1, mouse_pos)

MenuManager_handle_event(s, event) ==
    IF event.type = "MOUSEBUTTONDOWN" /\ event.button = 1
    THEN _handle_click(s, event.mouse_pos)
    ELSE s

MenuManager_update(s, ms) ==
    IF s.engine.menu_manager.click_cooldown > 0
    THEN [s EXCEPT !.engine.menu_manager.click_cooldown = @ - ms]
    ELSE s

(* One turn of the loop of _handle_events: the engine's own handling, then
   the event handed to the menu or to the game by the state it finds *)
HandleEvent(s, event) ==
    LET handled == IF event.type = "QUIT" THEN [s EXCEPT !.engine.running = FALSE]
                   ELSE IF event.type = "KEYDOWN" THEN _handle_keydown(s, event)
                   ELSE s
    IN  IF handled.engine.game_state = "MENU" THEN MenuManager_handle_event(handled, event)
        ELSE handled

ClickPoints ==
    {<<x, y>> : x \in {500, 600, 640, 700}, y \in {100, 185, 255, 325, 385, 445, 665}}

Events ==
    {[type |-> "QUIT", key |-> "none", button |-> 0, mouse_pos |-> <<0, 0>>]}
    \cup {[type |-> "KEYDOWN", key |-> k, button |-> 0, mouse_pos |-> <<0, 0>>] :
             k \in {"ESCAPE", "RETURN"}}
    \cup {[type |-> "MOUSEBUTTONDOWN", key |-> "none", button |-> 1, mouse_pos |-> p] :
             p \in ClickPoints}
    \cup {[type |-> "MOUSEBUTTONDOWN", key |-> "none", button |-> 3, mouse_pos |-> <<640, 325>>]}

GameClasses == {"TicTacToeGame", "MemoryGame", "SnakeGame", "Puzzle2048Game"}

Called_by(type, key) == [NoEvent EXCEPT !.type = type, !.key = key]

Becomes(s) ==
    /\ s.calls.created <= MaxGames
    /\ engine' = s.engine
    /\ calls' = s.calls
    /\ UNCHANGED game_vars

Now(event) == [engine |-> engine, calls |-> [calls EXCEPT !.event = event, !.callbacks = <<>>]]

_handle_events ==
    /\ ~engine.exited
    /\ \E event \in Events : Becomes(HandleEvent(Now(event), event))

_update ==
    /\ ~engine.exited
    /\ \E ms \in TickSteps :
          IF engine.game_state = "MENU"
          THEN Becomes(MenuManager_update(Now(Called_by("update", "none")), ms))
          ELSE Becomes(Now(Called_by("update", "none")))

(* The methods called from outside the loop of events: by a game, or by any
   other holder of the engine *)
call_switch_to_game ==
    /\ ~engine.exited
    /\ \E game_class \in GameClasses :
          Becomes(switch_to_game(Now(Called_by("call", "switch_to_game")), game_class))

call_return_to_menu ==
    /\ ~engine.exited
    /\ Becomes(_return_to_menu(Now(Called_by("call", "_return_to_menu"))))

(* The end of run(): the loop left with running False *)
_cleanup ==
    /\ ~engine.running
    /\ ~engine.exited
    /\ \E s \in {Now(Called_by("call", "_cleanup"))} :
          Becomes([(IF s.engine.current_game # NoGame
                    THEN cleanup(s, s.engine.current_game) ELSE s)
                      EXCEPT !.engine.exited = TRUE])

EngineInit ==
    /\ engine = EngineAtStart
    /\ calls = CallsAtStart
    /\ grid = EmptyGrid
    /\ animations = <<>>
    /\ score = 0
    /\ game_over = FALSE
    /\ won = FALSE
    /\ moved = FALSE
    /\ dark_mode = TRUE
    /\ raised = "none"
    /\ last = [Cleared EXCEPT !.key = "none"]
    /\ steps = 0

EngineNext ==
    \/ _handle_events
    \/ _update
    \/ call_switch_to_game
    \/ call_return_to_menu
    \/ _cleanup

EngineSpec == EngineInit /\ [][EngineNext]_vars

----------------------------------------------------------------------------
(* Start states: the game as constructed, and positions of games in play
   (animations drained), whose score is the one of a game in which every
   spawn was a 2.  Each position is the outcome of a move and its spawn:
   1024 1024 8 4 of a left move on 512 512 1024 8 with a 4 spawned at (0, 3),
   the near-checkerboard of a right move, the row and the column of four 2s
   of an up and of a left move, 1024 1024 2 0 of a left move. *)

RECURSIVE TileScore(_)
TileScore(v) == IF v <= 2 THEN 0 ELSE v + 2 * TileScore(v \div 2)

RECURSIVE SumTileScores(_, _)
SumTileScores(cells, n) ==
    IF n = 0 THEN 0 ELSE SumTileScores(cells, n - 1) + TileScore(cells[n])

GridScore(g) ==
    SumTileScores(g[1] \o g[2] \o g[3] \o g[4], grid_size * grid_size)

Positions ==
    { << <<1024, 1024, 8, 4>>, <<4, 2, 8, 4>>, <<2, 4, 2, 8>>, <<4, 2, 4, 2>> >>,
      << <<2, 4, 2, 4>>, <<4, 2, 4, 2>>, <<2, 4, 2, 4>>, <<0, 4, 2, 4>> >>,
      << <<2, 2, 2, 2>>, <<8, 16, 8, 4>>, <<4, 8, 16, 8>>, <<16, 4, 2, 0>> >>,
      << <<2, 8, 4, 16>>, <<2, 16, 8, 4>>, <<2, 8, 16, 2>>, <<2, 4, 8, 0>> >>,
      << <<1024, 1024, 2, 0>>, <<4, 8, 16, 32>>, <<2, 4, 8, 16>>, <<4, 2, 4, 2>> >> }

InitConstructed ==
    /\ \E s \in InitialBoards :
          /\ grid = s.grid
          /\ animations = s.animations
    /\ score = 0
    /\ game_over = FALSE
    /\ won = FALSE
    /\ moved = FALSE
    /\ dark_mode = TRUE
    /\ raised = "none"
    /\ engine = EngineInGame
    /\ calls = CallsInGame
    /\ last = Cleared
    /\ steps = MaxSteps - 1

InitInPlay ==
    /\ grid \in Positions
    /\ animations = <<>>
    /\ score = GridScore(grid)
    /\ game_over = FALSE
    /\ won = FALSE
    /\ moved = TRUE
    /\ dark_mode = TRUE
    /\ raised = "none"
    /\ engine = EngineInGame
    /\ calls = CallsInGame
    /\ last = [Cleared EXCEPT !.key = "none"]
    /\ steps = 0

Init == InitConstructed \/ InitInPlay

Next ==
    \/ \E key \in Keys : handle_event(key)
    \/ \E ms \in TickChoices : update(ms)

Spec == Init /\ [][Next]_vars

----------------------------------------------------------------------------
(* The moves as functions of the grid: one directional key on a grid that
   holds any line of tiles up to 2^MaxExponent as one of its rows or
   columns, the other three lines being a full block that no horizontal
   move changes or a looser one with tiles to slide and to merge. *)

LineValues == {0} \cup {2 ^ e : e \in 1 .. MaxExponent}

Lines == [1 .. grid_size -> LineValues]

Surroundings ==
    { << <<8, 16, 8, 16>>, <<16, 8, 16, 8>>, <<8, 16, 8, 16>> >>,
      << <<0, 8, 8, 0>>, <<4, 16, 2, 8>>, <<16, 0, 0, 16>> >> }

InsertLine(rows, p, line) ==
    SubSeq(rows, 1, p - 1) \o <<line>> \o SubSeq(rows, p, Len(rows))

Transpose(g) == [i \in 1 .. grid_size |-> [j \in 1 .. grid_size |-> g[j][i]]]

MoveGrids ==
    LET rowwise == {InsertLine(rows, p, line) :
                       rows \in Surroundings, p \in 1 .. grid_size, line \in Lines}
    IN  rowwise \cup {Transpose(g) : g \in rowwise}

MoveInit ==
    /\ grid \in MoveGrids
    /\ animations = <<>>
    /\ score = GridScore(grid)
    /\ game_over = CheckGameOver(grid, FALSE)
    /\ won = FALSE
    /\ moved = TRUE
    /\ dark_mode = TRUE
    /\ raised = "none"
    /\ engine = EngineInGame
    /\ calls = CallsInGame
    /\ last = [Cleared EXCEPT !.key = "none"]
    /\ steps = MaxSteps - 1

MoveNext == \E direction \in Directions : handle_event(direction)

MoveSpec == MoveInit /\ [][MoveNext]_vars

----------------------------------------------------------------------------
(* The spawner called on its own: _add_random_tile() on a grid of the moves'
   grids, full ones among them.  The method has no raise statement and its
   one call that can raise, random.choice on an empty list, is behind the
   test of empty_cells: it returns normally. *)

add_random_tile ==
    /\ steps < MaxSteps
    /\ steps' = steps + 1
    /\ \E s \in _add_random_tile(grid, animations) :
          /\ grid' = s.grid
          /\ animations' = s.animations
    /\ raised' = "none"
    /\ UNCHANGED <<engine, calls>>
    /\ last' = Entry("spawn")
    /\ UNCHANGED <<score, game_over, won, moved, dark_mode>>

SpawnNext == add_random_tile

SpawnSpec == MoveInit /\ [][SpawnNext]_vars

----------------------------------------------------------------------------
(* A game played to its end: directional keys that change the grid, and no
   restart, from boards with one empty cell that a move leaves (each has a
   2 or a 4 that a move can have spawned there) and whose plays are short:
   the longest takes MaxPlay moves, so that the limit of the exploration is
   not what ends them.  The player who keeps pressing a key that moves is
   the fairness condition. *)

MaxPlay == 13

PlayPositions ==
    { << <<32, 8, 256, 2>>, <<4, 32, 4, 0>>, <<128, 64, 2, 256>>, <<2, 8, 128, 64>> >>,
      << <<128, 2, 16, 8>>, <<8, 128, 64, 4>>, <<32, 4, 16, 256>>, <<64, 0, 256, 32>> >>,
      << <<32, 2, 256, 32>>, <<2, 0, 32, 128>>, <<64, 4, 2, 64>>, <<32, 128, 16, 256>> >>,
      << <<64, 0, 256, 2>>, <<128, 256, 128, 256>>, <<16, 2, 32, 8>>, <<128, 4, 128, 32>> >> }

PlayInit ==
    /\ grid \in PlayPositions
    /\ animations = <<>>
    /\ score = GridScore(grid)
    /\ game_over = FALSE
    /\ won = FALSE
    /\ moved = TRUE
    /\ dark_mode = TRUE
    /\ raised = "none"
    /\ engine = EngineInGame
    /\ calls = CallsInGame
    /\ last = [Cleared EXCEPT !.key = "none"]
    /\ steps = MaxSteps - MaxPlay

LegalMove(direction) == handle_event(direction) /\ grid' # grid

PlayNext == \E direction \in Directions : LegalMove(direction)

PlaySpec == PlayInit /\ [][PlayNext]_vars /\ WF_vars(PlayNext)

----------------------------------------------------------------------------
(* The frames of a game in play: the engine's loop hands the keys of a frame
   to handle_event and then calls update with the time of the frame, a whole
   number of milliseconds.  Frames of ShortTickMs leave an animation in the
   list for three calls, so that animations of different progress share the
   list.  The loop calls update in every frame: weak fairness of the tick. *)

Tick == \E ms \in TickSteps : update(ms)

TickNext ==
    \/ \E direction \in Directions : handle_event(direction)
    \/ Tick

(* The positions of games in play with two keys to follow, whatever the
   number of keys followed from the start of a game *)
TickInit ==
    /\ grid \in Positions
    /\ animations = <<>>
    /\ score = GridScore(grid)
    /\ game_over = FALSE
    /\ won = FALSE
    /\ moved = TRUE
    /\ dark_mode = TRUE
    /\ raised = "none"
    /\ engine = EngineInGame
    /\ calls = CallsInGame
    /\ last = [Cleared EXCEPT !.key = "none"]
    /\ steps = MaxSteps - 2

TickSpec == TickInit /\ [][TickNext]_vars /\ WF_vars(Tick)

----------------------------------------------------------------------------
(* Vocabulary of the properties *)

KeyStep(key) == steps' # steps /\ last'.key = key

MoveStep(direction) == KeyStep(direction) /\ ~game_over

RestartStep == KeyStep("r")

NewEvents == SubSeq(animations', Len(animations) + 1, Len(animations'))

OfType(events, type) == SelectSeq(events, LAMBDA e : e.type = type)

RECURSIVE SumValues(_)
SumValues(events) ==
    IF events = <<>> THEN 0 ELSE Head(events).value + SumValues(Tail(events))

RECURSIVE IsPowerOfTwo(_)
IsPowerOfTwo(v) == v = 2 \/ (v > 2 /\ v % 2 = 0 /\ IsPowerOfTwo(v \div 2))

TileCount(g) == Cardinality(Cells \ EmptyCells(g))

Full(g) == \A c \in Cells : Cell(g, c[1], c[2]) # 0

Adjacent(a, b) ==
    \/ a[1] = b[1] /\ (a[2] = b[2] + 1 \/ b[2] = a[2] + 1)
    \/ a[2] = b[2] /\ (a[1] = b[1] + 1 \/ b[1] = a[1] + 1)

NoEqualNeighbours(g) ==
    \A a \in Cells, b \in Cells :
        Adjacent(a, b) => Cell(g, a[1], a[2]) # Cell(g, b[1], b[2])

(* Line n of g along the direction of a move: a row or a column *)
LineOf(g, direction, n) ==
    IF direction \in {"left", "right"} THEN g[n + 1] ELSE Column(g, n)

(* The grid of the next state as it was before its spawn *)
BeforeSpawn ==
    IF NewEvents # <<>> /\ NewEvents[Len(NewEvents)].type = "spawn"
    THEN SetCell(grid', NewEvents[Len(NewEvents)].position, 0)
    ELSE grid'

(* out is tiles with some disjoint adjacent equal pairs replaced by their
   double, every tile of out being one tile or one such pair of tiles *)
RECURSIVE SingleMerge(_, _)
SingleMerge(out, tiles) ==
    IF out = <<>> \/ tiles = <<>> THEN out = <<>> /\ tiles = <<>>
    ELSE \/ Head(out) = Head(tiles) /\ SingleMerge(Tail(out), Tail(tiles))
         \/ /\ Len(tiles) >= 2
            /\ tiles[1] = tiles[2]
            /\ Head(out) = tiles[1] + tiles[2]
            /\ SingleMerge(Tail(out), Tail(Tail(tiles)))

Checkerboard ==
    << <<2, 4, 2, 4>>, <<4, 2, 4, 2>>, <<2, 4, 2, 4>>, <<4, 2, 4, 2>> >>

----------------------------------------------------------------------------
(* C1: in every reachable state every non-empty cell of the grid holds a
   power of two that is at least 2. *)
C1_TileValues ==
    \A c \in Cells : Cell(grid, c[1], c[2]) = 0 \/ IsPowerOfTwo(Cell(grid, c[1], c[2]))

C1_Witness ==
    /\ last.key \in Directions
    /\ score > last.score
    /\ \E c \in Cells : Cell(grid, c[1], c[2]) = WinTile

(* C2: in a move, every tile of a resulting line (before the spawn) is one
   tile of the line before the move or the double of two adjacent equal
   tiles of it, each tile used once: no tile merges twice in one move. *)
C2_NoDoubleMerge ==
    [][\A d \in Directions :
          MoveStep(d) =>
             \A n \in Idx :
                SingleMerge(NonZero(LineOf(BeforeSpawn, d, n)),
                            NonZero(LineOf(grid, d, n)))]_vars

C2_Witness ==
    /\ last.key = "left"
    /\ last.grid[1] = <<2, 2, 2, 2>>
    /\ grid[1][1] = 4 /\ grid[1][2] = 4 /\ grid[2][1] = 8

(* C3: a directional key never lowers the score and adds exactly the sum of
   the values of the merge events of that move; the score drops only in a
   restart, to 0. *)
C3_ScoreExact ==
    [][/\ \A d \in Directions :
             KeyStep(d) =>
                /\ score' >= score
                /\ score' - score = SumValues(OfType(NewEvents, "merge"))
       /\ score' < score => RestartStep /\ score' = 0]_vars

C3_Witness ==
    /\ last.key = "left"
    /\ last.grid[1] = <<2, 2, 2, 2>>
    /\ score = last.score + 8

(* C4: a move whose collapse leaves the grid as it was leaves the grid, the
   score, both flags and the animation list unchanged, and spawns nothing. *)
C4_NoOpMove ==
    [][\A d \in Directions :
          MoveStep(d) /\ Collapse(grid, d).grid = grid =>
             /\ grid' = grid
             /\ score' = score
             /\ won' = won
             /\ game_over' = game_over
             /\ animations' = animations]_vars

C4_Witness ==
    /\ last.key \in Directions
    /\ ~last.game_over
    /\ ~moved
    /\ grid = last.grid
    /\ TileCount(grid) < grid_size * grid_size

(* C5: a move spawns one tile when its collapse changed the grid and none
   when it did not. *)
C5_SpawnIffChanged ==
    [][\A d \in Directions :
          MoveStep(d) =>
             LET collapsed == Collapse(grid, d).grid
                 spawns    == Len(OfType(NewEvents, "spawn"))
             IN  /\ spawns = IF collapsed # grid THEN 1 ELSE 0
                 /\ TileCount(grid') = TileCount(collapsed) + spawns]_vars

C5_Witness ==
    /\ last.key = "up"
    /\ ~last.game_over
    /\ grid[1] = last.grid[1]
    /\ grid # last.grid
    /\ moved

(* C6: whenever _move_tiles calls the spawner the collapsed grid has an
   empty cell, also when the grid was full before the move, and both spawns
   of initialize() act on a grid that is not full. *)
InitializeSpawnsOnEmptyCells ==
    /\ EmptyCells(EmptyGrid) # {}
    /\ \A s \in _add_random_tile(EmptyGrid, <<>>) : EmptyCells(s.grid) # {}

C6_SpawnNeverOnFull ==
    [][/\ RestartStep => InitializeSpawnsOnEmptyCells
       /\ \A d \in Directions :
             MoveStep(d) =>
                \A pass \in {Collapse(grid, d)} :
                   GridChanged(pass.grid, grid) => EmptyCells(pass.grid) # {}]_vars

C6_Witness ==
    /\ last.key \in Directions
    /\ ~last.game_over
    /\ Full(last.grid)
    /\ grid # last.grid

(* C7: game_over holds exactly when the grid has no empty cell and no two
   horizontally or vertically adjacent cells hold the same value. *)
C7_LossDetection == game_over <=> (Full(grid) /\ NoEqualNeighbours(grid))

C7_Witness == game_over /\ grid = Checkerboard

(* C8: won holds whenever a cell holds 2048, becomes true only in a step
   that leaves a 2048 cell on the grid, and once true stays true in every
   step but a restart. *)
C8_WinMonotonic ==
    /\ [](HasWinTile(grid) => won)
    /\ [][/\ (won' /\ ~won) => HasWinTile(grid')
          /\ won => (won' \/ RestartStep)]_vars

C8_Witness ==
    /\ last.key \in Directions
    /\ ~last.won
    /\ won
    /\ ~HasWinTile(last.grid)
    /\ HasWinTile(grid)

C10_NoMoveAfterWon ==
    [][\A d \in Directions :
          won /\ KeyStep(d) =>
             grid' = grid /\ score' = score /\ animations' = animations]_vars

(* C10 amended: once won, a directional key leaves the grid, the score and
   the animation list unchanged exactly when game_over is set or the
   collapse in that direction leaves the grid as it was; won stays set. *)
C10_MoveAfterWon ==
    [][\A d \in Directions :
          won /\ KeyStep(d) =>
             /\ won'
             /\ (grid' = grid /\ score' = score /\ animations' = animations)
                   <=> (game_over \/ Collapse(grid, d).grid = grid)]_vars

C10_Witness ==
    /\ last.key \in Directions
    /\ last.won
    /\ ~last.game_over
    /\ grid # last.grid

(* C11: while game_over is set a directional key changes nothing: the grid,
   the score, both flags, the moved flag and the animation list stay as they
   are and no tile is spawned; game_over is cleared only by a restart. *)
C11_NoMoveWhenLost ==
    [][/\ \A d \in Directions :
             game_over /\ KeyStep(d) =>
                UNCHANGED <<grid, score, won, game_over, moved, animations>>
       /\ (game_over /\ ~game_over') => RestartStep]_vars

C11_Witness ==
    /\ last.key \in Directions
    /\ last.game_over
    /\ game_over
    /\ grid = last.grid

(* The state initialize() leaves: two tiles, each a 2 or a 4, score 0, both
   flags down, and the animation list holding the spawn events of the two
   tiles and nothing else *)
InitializePost(g, total, w, over, anims) ==
    /\ Len(NonZero(g[1] \o g[2] \o g[3] \o g[4])) = 2
    /\ \A i \in 1 .. grid_size : \A j \in 1 .. grid_size : g[i][j] \in {0, 2, 4}
    /\ total = 0
    /\ ~w
    /\ ~over
    /\ Len(anims) = 2
    /\ \A k \in 1 .. Len(anims) :
          /\ anims[k].type = "spawn"
          /\ anims[k].progress = 0
          /\ anims[k].position \in Cells
          /\ anims[k].value = Cell(g, anims[k].position[1], anims[k].position[2])
    /\ Len(anims) = 2 => anims[1].position # anims[2].position

(* C12: the state initialize() leaves, at construction and at every restart,
   has exactly two non-empty cells in distinct positions, each a 2 or a 4,
   score 0, won and game_over false, and an animation list of exactly the
   two spawn events. *)
C12_InitializePost ==
    /\ InitConstructed => InitializePost(grid, score, won, game_over, animations)
    /\ [][RestartStep =>
             InitializePost(grid', score', won', game_over', animations')]_vars

C12_Witness ==
    /\ steps = MaxSteps
    /\ last.key = "r"
    /\ TileCount(grid) = 2
    /\ Len(animations) = 2
    /\ animations[1].type = "spawn"
    /\ animations[2].type = "spawn"
    /\ score = 0

(* C13: the restart key is handled in every state, in progress, won or
   lost, and leaves a state that satisfies the postcondition of
   initialize() and is one of the outcomes of initialize() on a new game,
   whatever the state before. *)
C13_RestartFromAnyState ==
    /\ [](steps <= 1 /\ steps < MaxSteps => ENABLED handle_event("r"))
    /\ [][RestartStep =>
             /\ InitializePost(grid', score', won', game_over', animations')
             /\ [grid |-> grid', animations |-> animations'] \in InitialBoards
             /\ ~moved']_vars

C13_Witness ==
    /\ last.key = "r"
    /\ last.won
    /\ last.game_over
    /\ ~won
    /\ ~game_over
    /\ score = 0
    /\ Len(NonZero(grid[1] \o grid[2] \o grid[3] \o grid[4])) = 2

(* The reference collapse of a line towards its first cell: drop the empty
   cells, replace from the front each pair of equal neighbours not yet used
   by one tile of double the value, fill up with empty cells *)
RECURSIVE MergePairs(_)
MergePairs(tiles) ==
    IF Len(tiles) < 2 THEN tiles
    ELSE IF tiles[1] = tiles[2]
         THEN <<tiles[1] + tiles[2]>> \o MergePairs(Tail(Tail(tiles)))
         ELSE <<tiles[1]>> \o MergePairs(Tail(tiles))

RECURSIVE PairValues(_)
PairValues(tiles) ==
    IF Len(tiles) < 2 THEN <<>>
    ELSE IF tiles[1] = tiles[2]
         THEN <<tiles[1] + tiles[2]>> \o PairValues(Tail(Tail(tiles)))
         ELSE PairValues(Tail(tiles))

RECURSIVE Sum(_)
Sum(values) == IF values = <<>> THEN 0 ELSE Head(values) + Sum(Tail(values))

ReferenceLine(cells) ==
    LET merged == MergePairs(NonZero(cells))
    IN  merged \o [k \in 1 .. (Len(cells) - Len(merged)) |-> 0]

ReferenceScore(cells) == Sum(PairValues(NonZero(cells)))

ReferenceGrid(g) == [i \in 1 .. Len(g) |-> ReferenceLine(g[i])]

ReferenceGridScore(g) == Sum([i \in 1 .. Len(g) |-> ReferenceScore(g[i])])

(* The merge events of a move that lie in row i *)
MergesInRow(events, i) ==
    SelectSeq(events, LAMBDA e : e.type = "merge" /\ e.position[1] = i)

(* C14: a left move leaves in every row (before the spawn) the row of the
   reference algorithm, adds the values of its merged pairs to the score and
   appends one merge event per merged pair; 0 2 0 2 becomes 4 0 0 0 with
   score 4 and one merge event, 2 2 2 0 becomes 4 2 0 0 with score 4. *)
C14_LeftIsReference ==
    [][MoveStep("left") =>
          /\ BeforeSpawn = ReferenceGrid(grid)
          /\ score' - score = ReferenceGridScore(grid)
          /\ \A i \in Idx :
                /\ Len(MergesInRow(NewEvents, i)) = Len(PairValues(NonZero(grid[i + 1])))
                /\ grid[i + 1] = <<0, 2, 0, 2>> =>
                      /\ BeforeSpawn[i + 1] = <<4, 0, 0, 0>>
                      /\ Sum([k \in 1 .. Len(MergesInRow(NewEvents, i)) |->
                                 MergesInRow(NewEvents, i)[k].value]) = 4
                      /\ Len(MergesInRow(NewEvents, i)) = 1
                /\ grid[i + 1] = <<2, 2, 2, 0>> =>
                      /\ BeforeSpawn[i + 1] = <<4, 2, 0, 0>>
                      /\ Sum([k \in 1 .. Len(MergesInRow(NewEvents, i)) |->
                                 MergesInRow(NewEvents, i)[k].value]) = 4]_vars

C14_Witness ==
    /\ last.key = "left"
    /\ last.grid[1] = <<0, 2, 0, 2>>
    /\ grid[1][1] = 4
    /\ grid[1][2] = 0
    /\ score = last.score + 4
    /\ Len(OfType(animations, "merge")) = 1

Reverse(cells) == [k \in 1 .. Len(cells) |-> cells[Len(cells) + 1 - k]]

ReverseRows(g) == [i \in 1 .. Len(g) |-> Reverse(g[i])]

(* The grid and the score of direction d obtained from the left collapse:
   the grid transformed, collapsed to the left, transformed back *)
ViaLeft(g, d) ==
    CASE d = "left"  -> _move_left(g)
      [] d = "right" ->
           [_move_left(ReverseRows(g)) EXCEPT !.grid = ReverseRows(@)]
      [] d = "up"    ->
           [_move_left(Transpose(g)) EXCEPT !.grid = Transpose(@)]
      [] d = "down"  ->
           [_move_left(ReverseRows(Transpose(g))) EXCEPT
                !.grid = Transpose(ReverseRows(@))]

(* C15: a right move leaves the grid (before the spawn) and adds the score
   of reverse-each-row, collapse left, reverse-each-row; an up move those of
   transpose, collapse left, transpose; a down move those of transpose,
   reverse, collapse left, reverse, transpose. *)
C15_DirectionsViaLeft ==
    [][\A d \in Directions :
          MoveStep(d) =>
             \E via \in {ViaLeft(grid, d)} :
                /\ BeforeSpawn = via.grid
                /\ score' - score = via.score]_vars

C15_Witness ==
    /\ last.key = "down"
    /\ Column(last.grid, 0) = <<2, 2, 2, 0>>
    /\ grid[4][1] = 4
    /\ grid[3][1] = 2
    /\ score >= last.score + 4

(* The tiles of a line in scan order: from the edge the move collapses to *)
Oriented(d, cells) == IF d \in {"left", "up"} THEN cells ELSE Reverse(cells)

(* The merge events of a move that lie in line n of direction d *)
MergesInLine(events, d, n) ==
    SelectSeq(events, LAMBDA e :
        /\ e.type = "merge"
        /\ e.position[IF d \in {"left", "right"} THEN 1 ELSE 2] = n)

HasRunOfThree(tiles) ==
    \E a \in 1 .. (Len(tiles) - 2) : tiles[a] = tiles[a + 1] /\ tiles[a] = tiles[a + 2]

(* The first run of three or more equal tiles: where it starts, its length *)
RunStart(tiles) ==
    CHOOSE a \in 1 .. (Len(tiles) - 2) :
        /\ tiles[a] = tiles[a + 1] /\ tiles[a] = tiles[a + 2]
        /\ \A b \in 1 .. (a - 1) : ~(tiles[b] = tiles[b + 1] /\ tiles[b] = tiles[b + 2])

RunLength(tiles, a) ==
    CHOOSE k \in 1 .. (Len(tiles) - a + 1) :
        /\ \A b \in a .. (a + k - 1) : tiles[b] = tiles[a]
        /\ a + k > Len(tiles) \/ tiles[a + k] # tiles[a]

Copies(n, v) == [k \in 1 .. n |-> v]

(* The run with its first pair merged and its other tiles left as they are *)
FirstPairOnly(tiles) ==
    LET a == RunStart(tiles)
        k == RunLength(tiles, a)
    IN  SubSeq(tiles, 1, a - 1) \o <<2 * tiles[a]>> \o Copies(k - 2, tiles[a])
           \o SubSeq(tiles, a + k, Len(tiles))

(* The run merged pair by pair from the edge, an odd last tile left *)
PairsFromEdge(tiles) ==
    LET a == RunStart(tiles)
        k == RunLength(tiles, a)
    IN  SubSeq(tiles, 1, a - 1) \o Copies(k \div 2, 2 * tiles[a])
           \o Copies(k % 2, tiles[a]) \o SubSeq(tiles, a + k, Len(tiles))

(* C16 as claimed: in a line with three or more equal adjacent tiles only
   the first pair in scan order merges: one merge event in the line, the
   other tiles of the run staying as they are next to the merged tile. *)
C16_FirstPairOnly ==
    [][\A d \in Directions :
          MoveStep(d) =>
             \A n \in Idx :
                \E tiles \in {Oriented(d, NonZero(LineOf(grid, d, n)))} :
                   HasRunOfThree(tiles) =>
                      /\ Oriented(d, NonZero(LineOf(BeforeSpawn, d, n)))
                            = FirstPairOnly(tiles)
                      /\ Len(MergesInLine(NewEvents, d, n)) = 1]_vars

(* C16 amended: in a line with a run of three or more equal adjacent tiles
   the run merges pair by pair from the edge the move collapses to: a run of
   three merges its first pair and leaves the third tile next to the merged
   one, a run of four merges both pairs; no merged tile merges again. *)
C16_PairsFromEdge ==
    [][\A d \in Directions :
          MoveStep(d) =>
             \A n \in Idx :
                \E tiles \in {Oriented(d, NonZero(LineOf(grid, d, n)))} :
                   HasRunOfThree(tiles) =>
                      /\ Oriented(d, NonZero(LineOf(BeforeSpawn, d, n)))
                            = PairsFromEdge(tiles)
                      /\ Len(MergesInLine(NewEvents, d, n))
                            = RunLength(tiles, RunStart(tiles)) \div 2]_vars

C16_Witness ==
    /\ last.key = "right"
    /\ last.grid[1] = <<2, 2, 2, 0>>
    /\ grid[1][4] = 4
    /\ grid[1][3] = 2
    /\ grid[1][2] = 0

(* The order in which direction d reaches the cells p and q: left by rows
   and from the left, right by rows and from the right, up by columns and
   from the top, down by columns and from the bottom *)
LoopBefore(d, p, q) ==
    CASE d = "left"  -> p[1] < q[1] \/ (p[1] = q[1] /\ p[2] < q[2])
      [] d = "right" -> p[1] < q[1] \/ (p[1] = q[1] /\ p[2] > q[2])
      [] d = "up"    -> p[2] < q[2] \/ (p[2] = q[2] /\ p[1] < q[1])
      [] d = "down"  -> p[2] < q[2] \/ (p[2] = q[2] /\ p[1] > q[1])

(* C17 as claimed: the merge events of a move, in each direction, are in
   row-major order of their cells. *)
C17_RowMajorEvents ==
    [][\A d \in Directions :
          MoveStep(d) =>
             \E merges \in {OfType(NewEvents, "merge")} :
                \A k \in 1 .. (Len(merges) - 1) :
                   RowMajorFirst(merges[k].position, merges[k + 1].position)]_vars

(* C17 amended: the events of a move are in the order of the loops of its
   direction: the merge events by rows from the left (left), by rows from
   the right (right), by columns from the top (up), by columns from the
   bottom (down), each at the cell that holds the merged value, and the
   spawn event, if any, after them. *)
C17_LoopOrderEvents ==
    [][\A d \in Directions :
          MoveStep(d) =>
             \E merges \in {OfType(NewEvents, "merge")} :
                /\ \A k \in 1 .. (Len(merges) - 1) :
                      LoopBefore(d, merges[k].position, merges[k + 1].position)
                /\ \A k \in 1 .. Len(merges) :
                      /\ NewEvents[k] = merges[k]
                      /\ Cell(BeforeSpawn, merges[k].position[1], merges[k].position[2])
                            = merges[k].value
                /\ \A k \in (Len(merges) + 1) .. Len(NewEvents) :
                      /\ NewEvents[k].type = "spawn"
                      /\ k = Len(NewEvents)]_vars

C17_Witness ==
    /\ last.key = "right"
    /\ last.grid[1] = <<2, 2, 4, 4>>
    /\ Len(animations) >= 3
    /\ animations[1].type = "merge" /\ animations[1].position = <<0, 3>>
    /\ animations[2].type = "merge" /\ animations[2].position = <<0, 2>>
    /\ animations[Len(animations)].type = "spawn"

(* Orders in which the lines of a pass can be taken other than the loop's:
   backwards, and two that put no line where the loop has it *)
OtherOrders == {<<3, 2, 1, 0>>, <<1, 3, 0, 2>>, <<2, 0, 3, 1>>}

(* What the pass of direction d makes of a line standing alone as line n (a
   row for left and right, a column for up and down) of an empty grid *)
LineAlone(d, n, line) == LinePass(StoreLine(EmptyGrid, d, n, line), d, n).merged

(* C18: in a move every resulting line (before the spawn) is what the pass
   makes of that line standing alone, whatever the other lines hold, and
   the grid and the score of the pass are the same when the lines are taken
   in another order. *)
C18_LinesIndependent ==
    [][\A d \in Directions :
          MoveStep(d) =>
             \E before \in {BeforeSpawn} :
                /\ \A n \in Idx :
                      LineOf(before, d, n) = LineAlone(d, n, LineOf(grid, d, n))
                /\ \A order \in OtherOrders :
                      \E pass \in {ProcessLines(grid, d, order, grid_size)} :
                         /\ pass.grid = before
                         /\ pass.score = score' - score]_vars

C18_Witness ==
    /\ last.key = "left"
    /\ last.grid[1] = <<0, 2, 0, 2>>
    /\ last.grid[2] = <<0, 8, 8, 0>>
    /\ grid[1][1] = 4
    /\ grid[2][1] = 16
    /\ score = last.score + 52

(* The tiles of a line, its empty cells dropped *)
Tiles(cells) == SelectSeq(cells, LAMBDA v : v > 0)

(* No line of g has two equal tiles next to each other along direction d
   once its empty cells are dropped *)
NoMergeAlong(g, d) ==
    \A n \in Idx :
       \E tiles \in {Tiles(LineOf(g, d, n))} :
          \A k \in 1 .. (Len(tiles) - 1) : tiles[k] # tiles[k + 1]

(* The line with its tiles pushed, in their order, against the edge that
   direction d moves to *)
Slid(d, cells) ==
    IF d \in {"left", "up"}
    THEN Tiles(cells) \o Copies(Len(cells) - Len(Tiles(cells)), 0)
    ELSE Copies(Len(cells) - Len(Tiles(cells)), 0) \o Tiles(cells)

(* C19: a move along which no two equal tiles are neighbours pushes the
   tiles of every line, in their order, against the far edge, adds nothing
   to the score and appends no merge event; when a tile moved, moved is set
   and one tile, a 2 or a 4, is spawned in a cell the slide left empty; when
   none moved, nothing is spawned.  A row 2 0 0 0 moved right is 0 0 0 2,
   and _move_right on a grid of a single 2 at (0, 0) leaves it at (0, 3)
   with score 0, a changed grid and one tile spawned in another cell. *)
SingleTileMovedRight ==
    \E pass \in {_move_right(SetCell(EmptyGrid, <<0, 0>>, 2))} :
       /\ pass.grid = SetCell(EmptyGrid, <<0, 3>>, 2)
       /\ pass.score = 0
       /\ pass.events = <<>>
       /\ GridChanged(pass.grid, SetCell(EmptyGrid, <<0, 0>>, 2))
       /\ \A s \in _add_random_tile(pass.grid, pass.events) :
             /\ Cell(s.grid, 0, 3) = 2
             /\ Len(NonZero(s.grid[1] \o s.grid[2] \o s.grid[3] \o s.grid[4])) = 2
             /\ Len(s.animations) = 1

C19_SlideWithoutMerge ==
    [][/\ MoveStep("right") => SingleTileMovedRight
       /\ \A d \in Directions :
             MoveStep(d) /\ NoMergeAlong(grid, d) =>
                \E before \in {BeforeSpawn}, spawns \in {OfType(NewEvents, "spawn")} :
                   /\ \A n \in Idx : LineOf(before, d, n) = Slid(d, LineOf(grid, d, n))
                   /\ \A n \in Idx :
                         (d = "right" /\ grid[n + 1] = <<2, 0, 0, 0>>)
                            => before[n + 1] = <<0, 0, 0, 2>>
                   /\ score' = score
                   /\ OfType(NewEvents, "merge") = <<>>
                   /\ IF before # grid
                      THEN /\ moved'
                           /\ Len(spawns) = 1
                           /\ Cell(before, spawns[1].position[1], spawns[1].position[2]) = 0
                           /\ spawns[1].value \in {2, 4}
                           /\ grid' = SetCell(before, spawns[1].position, spawns[1].value)
                      ELSE /\ ~moved'
                           /\ spawns = <<>>
                           /\ grid' = grid]_vars

C19_Witness ==
    /\ last.key = "right"
    /\ last.grid[1] = <<2, 0, 0, 0>>
    /\ grid[1][4] = 2
    /\ grid[1][1] = 0
    /\ score = last.score
    /\ moved
    /\ Len(animations) = 1
    /\ animations[1].type = "spawn"
    /\ animations[1].position # <<0, 3>>

(* The cells in which g and h differ *)
Differing(g, h) == {c \in Cells : Cell(g, c[1], c[2]) # Cell(h, c[1], c[2])}

(* after is before with one tile, a 2 or a 4, put in a cell that was empty,
   the cell and value the event names, and nothing else changed *)
OneTileAdded(before, after, event) ==
    /\ Differing(before, after) = {event.position}
    /\ Cell(before, event.position[1], event.position[2]) = 0
    /\ Cell(after, event.position[1], event.position[2]) = event.value
    /\ event.value \in {2, 4}

(* Every empty cell of g, with a 2 and with a 4, is an outcome of the spawn *)
AnyEmptyCellMayBeChosen(g) ==
    \E outcomes \in {{s.grid : s \in _add_random_tile(g, <<>>)}} :
       \A i \in Idx, j \in Idx, v \in {2, 4} :
          Cell(g, i, j) = 0 => SetCell(g, <<i, j>>, v) \in outcomes

(* C20: the spawn of a move changes exactly one cell of the collapsed grid,
   a cell that was empty, to a 2 or a 4 and leaves every other cell as it
   was, and each empty cell of the collapsed grid, with either value, is a
   possible outcome. *)
C20_SpawnPlacement ==
    [][\A d \in Directions :
          (MoveStep(d) /\ OfType(NewEvents, "spawn") # <<>>) =>
             \E pass \in {Collapse(grid, d)} :
                /\ OneTileAdded(pass.grid, grid', NewEvents[Len(NewEvents)])
                /\ AnyEmptyCellMayBeChosen(pass.grid)]_vars

C20_Witness ==
    /\ last.key \in Directions
    /\ animations # <<>>
    /\ animations[Len(animations)].type = "spawn"
    /\ animations[Len(animations)].value = 4
    /\ animations[Len(animations)].position = <<3, 0>>
    /\ last.grid[4][1] = 0
    /\ grid[4][1] = 4

SpawnStep == KeyStep("spawn")

C22_OnlyMovesAndRestartMutate ==
    [][/\ (~RestartStep /\ \A d \in Directions : ~KeyStep(d)) =>
             UNCHANGED <<grid, score, won, game_over>>
       /\ steps' = steps => UNCHANGED <<grid, score, won, game_over, moved, dark_mode>>
       /\ KeyStep("m") =>
             /\ UNCHANGED <<grid, score, won, game_over, moved, animations>>
             /\ dark_mode' # dark_mode]_vars

C22_Witness ==
    /\ last.key = "m"
    /\ ~dark_mode
    /\ Len(Tiles(grid[1] \o grid[2] \o grid[3] \o grid[4])) = 2
    /\ animations = <<>>
    /\ grid = last.grid
    /\ score = last.score

TilesOf(g) == Tiles(g[1] \o g[2] \o g[3] \o g[4])

(* C25: in a move of any direction there is one merge event for each merge,
   that is for each tile the collapse takes off the grid; the position of
   each merge event is a cell of the grid that holds the event's value right
   after the collapse; no two merge events of the move have the same
   position, and the spawn event has the position of none of them. *)
C25_MergeEventsAtMergedTiles ==
    [][\A d \in Directions :
          MoveStep(d) =>
             \E before \in {BeforeSpawn},
                merges \in {OfType(NewEvents, "merge")},
                spawns \in {OfType(NewEvents, "spawn")} :
                /\ Len(merges) = Len(TilesOf(grid)) - Len(TilesOf(before))
                /\ Sum([k \in 1 .. Len(merges) |-> merges[k].value]) = score' - score
                /\ \A k \in 1 .. Len(merges) :
                      /\ merges[k].position \in Cells
                      /\ Cell(before, merges[k].position[1], merges[k].position[2])
                            = merges[k].value
                      /\ \A m \in 1 .. Len(merges) :
                            m # k => merges[m].position # merges[k].position
                      /\ \A m \in 1 .. Len(spawns) :
                            spawns[m].position # merges[k].position]_vars

C25_Witness ==
    /\ last.key = "down"
    /\ Column(last.grid, 0) = <<2, 2, 4, 4>>
    /\ Len(animations) = 3
    /\ animations[1] = Event("merge", 3, 0, 8)
    /\ animations[2] = Event("merge", 2, 0, 4)
    /\ animations[3].type = "spawn"
    /\ grid[4][1] = 8
    /\ grid[3][1] = 4

(* No move is left on g: every cell holds a tile that differs from the tile
   to its right and from the tile below it *)
Stuck(g) ==
    \A i \in 1 .. grid_size, j \in 1 .. grid_size :
        /\ g[i][j] # 0
        /\ j < grid_size => g[i][j] # g[i][j + 1]
        /\ i < grid_size => g[i][j] # g[i + 1][j]

Holds(g, v) == \E i \in 1 .. grid_size, j \in 1 .. grid_size : g[i][j] = v

(* C26: a move that changes the grid appends its merge events first and
   then exactly one spawn event, the last one, whose tile is on the grid;
   the flags it leaves are those of the grid with the spawned tile:
   game_over holds exactly when that grid has no empty cell and no equal
   neighbours, won when it was set or that grid holds 2048.  A spawn that
   fills the last empty cell of a board without equal neighbours ends the
   game in that same move. *)
C26_CheckAfterSpawn ==
    [][\A d \in Directions :
          (MoveStep(d) /\ grid' # grid) =>
             \E ev \in {NewEvents} :
                /\ Len(ev) >= 1
                /\ ev[Len(ev)].type = "spawn"
                /\ \A k \in 1 .. (Len(ev) - 1) : ev[k].type = "merge"
                /\ grid'[ev[Len(ev)].position[1] + 1][ev[Len(ev)].position[2] + 1]
                      = ev[Len(ev)].value
                /\ game_over' = Stuck(grid')
                /\ won' = (won \/ Holds(grid', WinTile))]_vars

C26_Witness ==
    /\ last.key = "left"
    /\ ~last.game_over
    /\ last.grid[4] = <<0, 4, 2, 4>>
    /\ animations = <<Event("spawn", 3, 3, 2)>>
    /\ Stuck(grid)
    /\ game_over

GridSum(g) == Sum(g[1] \o g[2] \o g[3] \o g[4])

(* C27: the collapse of a move keeps the sum of the tile values of every
   line along the move (every row for left and right, every column for up
   and down), hence the sum of the whole grid; a move that changes the grid
   raises the sum of the grid by exactly the value it spawns, 2 or 4, and a
   move that does not change the grid leaves the sum as it was. *)
C27_TileSumConserved ==
    [][\A d \in Directions :
          MoveStep(d) =>
             \E before \in {BeforeSpawn}, spawns \in {OfType(NewEvents, "spawn")} :
                /\ \A n \in Idx : Sum(LineOf(before, d, n)) = Sum(LineOf(grid, d, n))
                /\ GridSum(before) = GridSum(grid)
                /\ IF grid' # grid
                   THEN /\ Len(spawns) = 1
                        /\ spawns[1].value \in {2, 4}
                        /\ GridSum(grid') = GridSum(grid) + spawns[1].value
                   ELSE /\ spawns = <<>>
                        /\ GridSum(grid') = GridSum(grid)]_vars

C27_Witness ==
    /\ last.key = "right"
    /\ last.grid[1] = <<2, 2, 0, 4>>
    /\ grid[1] = <<0, 0, 4, 4>>
    /\ GridSum(grid) = GridSum(last.grid) + 4

(* C28: the number of tiles on the grid is always between 1 and
   grid_size * grid_size; after a move that changes the grid it is the
   number before the move minus the number of merges of the move plus one,
   the spawn; and in every line along the move the tiles that remain after
   the collapse, read in the same direction, are the tiles before it in
   their order with some adjacent equal pairs replaced by their double. *)
C28_TileCountAccounting ==
    /\ [](Len(TilesOf(grid)) \in 1 .. (grid_size * grid_size))
    /\ [][\A d \in Directions :
             MoveStep(d) =>
                \E before \in {BeforeSpawn}, merges \in {OfType(NewEvents, "merge")} :
                   /\ grid' # grid =>
                         Len(TilesOf(grid')) = Len(TilesOf(grid)) - Len(merges) + 1
                   /\ Len(TilesOf(before)) = Len(TilesOf(grid)) - Len(merges)
                   /\ \A n \in Idx :
                         SingleMerge(Tiles(LineOf(before, d, n)),
                                     Tiles(LineOf(grid, d, n)))]_vars

C28_Witness ==
    /\ last.key = "left"
    /\ Len(TilesOf(last.grid)) = 15
    /\ Len(OfType(animations, "merge")) = 2
    /\ Len(OfType(animations, "spawn")) = 1
    /\ Len(TilesOf(grid)) = 14

(* The collapse of direction d would change the grid g *)
LegalDirection(g, d) == Collapse(g, d).grid # g

(* C29: in every reachable state game_over is set exactly when the collapse
   of none of the four directions would change the grid; so while game_over
   is not set some direction is a move that changes the grid. *)
C29_LossIffNoLegalMove ==
    game_over <=> (\A d \in Directions : ~LegalDirection(grid, d))

C29_Witness ==
    /\ last.key = "down"
    /\ ~last.game_over
    /\ LegalDirection(last.grid, "down")
    /\ game_over
    /\ \A d \in Directions : ~LegalDirection(grid, d)

(* C30: every move that changes the grid raises the sum of the tile values
   on the board, and a game in which the player keeps making moves that
   change the grid, without a restart, reaches game_over. *)
C30_EveryGameEnds ==
    /\ [][\A d \in Directions :
             (MoveStep(d) /\ grid' # grid) => GridSum(grid') > GridSum(grid)]_vars
    /\ <>game_over

C30_Witness ==
    /\ game_over
    /\ last.key \in Directions
    /\ Len(OfType(animations, "spawn")) = MaxPlay
    /\ GridSum(grid) >= GridSum(last.grid) + 2

(* A step of update: the only action that leaves the count of keys alone *)
TickStep == steps' = steps

(* The events of a list after inc thousandths of progress, those that reach
   ProgressDone left out *)
Survivors(events, inc) ==
    SelectSeq([k \in 1 .. Len(events) |-> [events[k] EXCEPT !.progress = @ + inc]],
              LAMBDA e : e.progress < ProgressDone)

(* C31: a call of update with a positive time step raises the progress of
   every queued event by the same positive amount, removes exactly the
   events whose progress has reached 1.0, adds none and keeps the order of
   the others; and a list that is not empty is empty again later, the
   engine calling update in every frame. *)
C31_QueueDrains ==
    /\ [][TickStep =>
             \E ms \in TickSteps :
                /\ ms > 0
                /\ animations' = Survivors(animations, ms * AnimationSpeed)
                /\ Len(animations') <= Len(animations)
                /\ \A k \in 1 .. Len(animations') :
                      animations'[k].progress \in 1 .. (ProgressDone - 1)]_vars
    /\ (animations # <<>>) ~> (animations = <<>>)

C31_Witness ==
    /\ last.key \in Directions
    /\ last.grid \notin Positions
    /\ Len(animations) = 2
    /\ animations[1].type = "merge"
    /\ animations[2].type = "spawn"
    /\ animations[1].progress = ShortTickMs * AnimationSpeed
    /\ animations[2].progress = ShortTickMs * AnimationSpeed

(* Steps of the engine, told by the event or call the history names *)
EscStep == calls'.event.type = "KEYDOWN" /\ calls'.event.key = "ESCAPE"

ClickStep == calls'.event.type = "MOUSEBUTTONDOWN"

TimesCleaned(id) == Len(SelectSeq(calls.cleanup, LAMBDA c : c = id))

(* C32: game_state is "GAMEPLAY" exactly when current_game is set and "MENU"
   exactly when it is None; every game constructed has had its cleanup()
   called once when it is no longer the current game (replaced, left, or at
   the end of run) and not at all while it is; an ESC key in GAMEPLAY returns
   to the menu, cleans the game up and leaves running as it is, and an ESC
   key in MENU sets running to False. *)
C32_ModeConsistent ==
    /\ [](/\ engine.game_state \in {"MENU", "GAMEPLAY"}
          /\ engine.game_state = "GAMEPLAY" <=> engine.current_game # NoGame
          /\ engine.game_state = "MENU" <=> engine.current_game = NoGame
          /\ \A id \in 1 .. calls.created :
                TimesCleaned(id) =
                   IF id = engine.current_game.id /\ ~engine.exited THEN 0 ELSE 1)
    /\ [][EscStep =>
             IF engine.game_state = "GAMEPLAY"
             THEN /\ engine'.game_state = "MENU"
                  /\ engine'.current_game = NoGame
                  /\ engine'.running = engine.running
                  /\ calls'.cleanup = Append(calls.cleanup, engine.current_game.id)
             ELSE /\ engine'.game_state = "MENU"
                  /\ ~engine'.running
                  /\ calls'.cleanup = calls.cleanup]_vars

C32_Witness ==
    /\ calls.event.key = "ESCAPE"
    /\ engine.running
    /\ engine.game_state = "MENU"
    /\ engine.current_game = NoGame
    /\ calls.created = 2
    /\ calls.cleanup = <<1, 2>>

Cooldown == engine.menu_manager.click_cooldown

(* The button of game k of the selection menu is under the mouse position *)
OverGameButton(k, mouse_pos) ==
    LET x == (ScreenWidth - 400) \div 2 + ((k - 1) % 2) * 200 + 10
        y == 150 + ((k - 1) \div 2) * 70 + 10
    IN  /\ mouse_pos[1] \in x .. (x + 179)
        /\ mouse_pos[2] \in y .. (y + 49)

(* C33: a mouse click makes at most one callback of the menu act, so it
   causes at most one navigation, launch or quit: after a click on Start
   Game the game button of the selection menu under the same mouse position
   does not fire; and a click made while click_cooldown > 0 changes neither
   current_menu nor the current game nor running. *)
C33_OneActionPerClick ==
    [][ClickStep =>
          /\ Len(calls'.callbacks) <= 1
          /\ calls'.created <= calls.created + 1
          /\ ~(/\ engine'.menu_manager.current_menu # engine.menu_manager.current_menu
               /\ engine'.current_game # engine.current_game)
          /\ (\E k \in 1 .. Len(calls'.callbacks) :
                 calls'.callbacks[k].callback = "_on_start_game")
                => /\ engine'.current_game = engine.current_game
                   /\ engine'.menu_manager.current_menu = "game_select"
          /\ Cooldown > 0 => /\ engine' = engine
                              /\ calls'.callbacks = <<>>]_vars

C33_Witness ==
    /\ calls.event.type = "MOUSEBUTTONDOWN"
    /\ calls.event.button = 1
    /\ calls.event.mouse_pos = <<600, 325>>
    /\ OverGameButton(5, calls.event.mouse_pos)
    /\ calls.callbacks = <<[callback |-> "_on_start_game", game_id |-> ""]>>
    /\ engine.menu_manager.current_menu = "game_select"
    /\ engine.game_state = "MENU"
    /\ engine.current_game = NoGame

Launched == {"tictactoe", "memory", "snake"}

ClassNamed(game_id) ==
    IF game_id = "tictactoe" THEN "TicTacToeGame"
    ELSE IF game_id = "memory" THEN "MemoryGame"
    ELSE "SnakeGame"

(* C34: a left click on the button of a game id in the selection menu,
   made when click_cooldown <= 0, calls _on_game_select for that id alone
   and sets the cooldown to 0.5 s; for tictactoe, memory and snake it leaves
   the engine in GAMEPLAY with a new game of the class of the id, and for
   puzzle_2048, sliding, sudoku, domino and tetris it leaves the engine in
   MENU without a current game. *)
C34_LaunchFromMenu ==
    [][(/\ ClickStep
        /\ calls'.event.button = 1
        /\ engine.game_state = "MENU"
        /\ engine.menu_manager.current_menu = "game_select"
        /\ Cooldown <= 0) =>
          \A k \in 1 .. Len(GameIds) :
             OverGameButton(k, calls'.event.mouse_pos) =>
                /\ calls'.callbacks =
                      <<[callback |-> "_on_game_select", game_id |-> GameIds[k]]>>
                /\ engine'.menu_manager.click_cooldown = 500
                /\ engine'.menu_manager.current_menu = "game_select"
                /\ IF GameIds[k] \in Launched
                   THEN /\ engine'.game_state = "GAMEPLAY"
                        /\ engine'.current_game =
                              [class |-> ClassNamed(GameIds[k]), id |-> calls.created + 1]
                   ELSE /\ engine'.game_state = "MENU"
                        /\ engine'.current_game = NoGame
                        /\ calls'.created = calls.created]_vars

C34_Witness ==
    /\ calls.event.type = "MOUSEBUTTONDOWN"
    /\ calls.callbacks = <<[callback |-> "_on_game_select", game_id |-> "puzzle_2048"]>>
    /\ engine.menu_manager.click_cooldown = 500
    /\ engine.game_state = "MENU"
    /\ engine.current_game = NoGame
    /\ calls.created = 1
    /\ calls.cleanup = <<1>>

====
